---- MODULE Spec2Model ----
(***************************************************************************)
(* A model of scripts/IMGT_scrape.py: the command line parser, the        *)
(* per-segment scrape loop, the library builder and the cleanup, acting   *)
(* on a file system of directories and FASTA files.                       *)
(*                                                                         *)
(* Text is modelled as a sequence of tokens.  A token is a run of         *)
(* characters holding none of the characters the program looks at         *)
(* ("|", " ", "_", "+", ...); each of those characters is a token of its  *)
(* own.  A path is a sequence of components, a component is a text.       *)
(***************************************************************************)
EXTENDS Integers, Sequences, FiniteSets, TLC

\* ------------------------------------------------------------------ bounds
\* Number of invocations of main() in one behaviour.
MaxRuns == 2
\* Number of fetches, over a behaviour of SpecResume, that end in a warning.
MaxFailures == 3
\* Number of fetches, over a behaviour of SpecRun, that end in a warning.
MaxRunFailures == 1
\* Records of library.fasta already flushed to disk when the library file is
\* read back as one of its own inputs.
MaxFlushed == 2
\* Length of a header in SpecHeader, in tokens.
MaxHeaderLen == 5
\* Number of option/value pairs on a command line in SpecArgs.
MaxArgs == 3

\* --------------------------------------------------------- program constants
\* time.sleep(2)
SleepSeconds == 2
\* response.status_code == 200
HttpOk == 200
\* header.split("|")[0:3]
HeaderFields == 3

\* ------------------------------------------------------------------- text
Min(a, b) == IF a < b THEN a ELSE b

\* str.replace(old, new) for a one-character old and new.
Replace(s, old, new) == [i \in 1..Len(s) |-> IF s[i] = old THEN new ELSE s[i]]

RECURSIVE SplitFrom(_, _, _, _)
SplitFrom(s, sep, i, cur) ==
    IF i > Len(s) THEN <<cur>>
    ELSE IF s[i] = sep THEN <<cur>> \o SplitFrom(s, sep, i + 1, <<>>)
    ELSE SplitFrom(s, sep, i + 1, Append(cur, s[i]))

\* str.split(sep): always at least one field.
Split(s, sep) == SplitFrom(s, sep, 1, <<>>)

RECURSIVE Join(_, _)
\* sep.join(parts)
Join(parts, sep) ==
    IF Len(parts) = 0 THEN <<>>
    ELSE IF Len(parts) = 1 THEN parts[1]
    ELSE parts[1] \o <<sep>> \o Join(Tail(parts), sep)

\* parts[0:n]
Take(parts, n) == SubSeq(parts, 1, Min(n, Len(parts)))

\* The tokens whose case the program changes: a nucleotide letter or a word
\* of a species name or receptor type, in lower case, capitalized (first
\* character upper case, the rest lower case) and in upper case.
LowerForms   == <<"a", "c", "g", "t", "mus", "bos", "taurus", "tr", "ig", "xx">>
CapitalForms == <<"A", "C", "G", "T", "Mus", "Bos", "Taurus", "Tr", "Ig", "Xx">>
UpperForms   == <<"A", "C", "G", "T", "MUS", "BOS", "TAURUS", "TR", "IG", "XX">>

CasedTokens == {LowerForms[i] : i \in 1..Len(LowerForms)}
               \cup {CapitalForms[i] : i \in 1..Len(LowerForms)}
               \cup {UpperForms[i] : i \in 1..Len(LowerForms)}

\* The position of a cased token in the table.
CaseIndex ==
    [c \in CasedTokens |->
        CHOOSE i \in 1..Len(LowerForms) : c \in {LowerForms[i], CapitalForms[i], UpperForms[i]}]

UpperTok(c) == IF c \in CasedTokens THEN UpperForms[CaseIndex[c]] ELSE c
LowerTok(c) == IF c \in CasedTokens THEN LowerForms[CaseIndex[c]] ELSE c
CapitalTok(c) == IF c \in CasedTokens THEN CapitalForms[CaseIndex[c]] ELSE c

\* str.upper(), Seq.upper()
Upper(s) == [i \in 1..Len(s) |-> UpperTok(s[i])]
\* str.lower()
Lower(s) == [i \in 1..Len(s) |-> LowerTok(s[i])]
\* str.capitalize(): first character upper case, the rest lower case.
Capitalize(s) == [i \in 1..Len(s) |-> IF i = 1 THEN CapitalTok(s[i]) ELSE LowerTok(s[i])]

\* ------------------------------------------------------------------ paths
Cwd == <<>>
LibraryName == <<"library">>

\* Path.parent is lexical: the parent of "." is "." itself.
Parent(p) == IF Len(p) = 0 THEN p ELSE SubSeq(p, 1, Len(p) - 1)


\* Parent directories, nearest last (mkdir parents=True creates them all).
RECURSIVE Ancestors(_)
Ancestors(p) == IF Len(p) = 0 THEN {p} ELSE {p} \cup Ancestors(Parent(p))

\* ------------------------------------------------------- the program's data
\* segments["TR"], segments["IG"] of scrape_IMGT
SegmentsTR == <<"TRBV", "TRBJ", "TRBD", "TRAV", "TRAJ",
                "TRDD", "TRDJ", "TRDV", "TRGV", "TRGJ">>
SegmentsIG == <<"IGHV", "IGHD", "IGHJ", "IGKV", "IGKJ", "IGLV", "IGLJ">>
TypeTR == <<"TR">>
TypeIG == <<"IG">>
segments(immune_type) == IF immune_type = TypeTR THEN SegmentsTR ELSE SegmentsIG

Range(s) == {s[i] : i \in 1..Len(s)}

\* Two of the names of latin_names.
Mus == <<"Mus">>
BosTaurus == <<"Bos", " ", "taurus">>
latin_names == {Mus, BosTaurus}

\* The choices of --frame-selection; NoFrame is the option left out (None).
NoFrame == "None"
frame_choices == {"all", "in-frame", "in-frame-gaps"}

\* File names: {segment}.fasta for every segment, and library.fasta.
LibraryFile == "library"
FileNames == Range(SegmentsTR) \cup Range(SegmentsIG) \cup {LibraryFile}

\* -O/--output: left out, or a path relative to the working directory.
NoOutput == [given |-> FALSE, path |-> Cwd]
OutPath == << <<"out">> >>
LibPath == << LibraryName >>
OutputArgs == {NoOutput, [given |-> TRUE, path |-> OutPath],
               [given |-> TRUE, path |-> LibPath]}

\* main, line 376: the directory named by -O, or the species' name under cwd.
OutputDir(output, species) ==
    IF output.given THEN output.path
    ELSE Cwd \o << Lower(Replace(species, " ", "_")) >>

\* create_library, line 105
LibraryDir(directory) == Parent(directory) \o << LibraryName >>

\* Every directory the runs can name.
DirUniverse ==
    {Cwd} \cup {OutputDir(o, sp) : o \in OutputArgs, sp \in latin_names}
          \cup {LibraryDir(OutputDir(o, sp)) : o \in OutputArgs, sp \in latin_names}

NoFile == [exists |-> FALSE, recs |-> <<>>]
File(recs) == [exists |-> TRUE, recs |-> recs]

\* ------------------------------------------------------- the remote server
\* Segments for which the server holds two alleles; one for the others.
TwoAlleles == {"TRBV", "TRAV", "TRDV", "TRGV", "IGHV", "IGKV", "IGLV"}

\* The n-th record the server holds for a query: accession|segment|species|code.
ServerRecord(species, segment, code, n) ==
    [description |-> <<(IF n = 1 THEN "M1" ELSE "M2"), "|", segment, "|">>
                     \o species \o <<"|", code>>,
     seq |-> IF n = 1 THEN <<"a", "c", "g">> ELSE <<"t", "G">>]

ServerBlock(species, segment, code) ==
    IF segment \in TwoAlleles
    THEN <<ServerRecord(species, segment, code, 1), ServerRecord(species, segment, code, 2)>>
    ELSE <<ServerRecord(species, segment, code, 1)>>

ErrorCodes == {404, 500}

\* What requests.get can return for a query: a page whose second <pre> block
\* is FASTA text, a page with no FASTA block, an error page.  A <pre> block
\* is the sequence of the records in it; it holds a ">" iff it holds a record.
Responses(species, segment, code) ==
    {[status_code |-> HttpOk, pre |-> << <<>>, ServerBlock(species, segment, code) >>],
     [status_code |-> HttpOk, pre |-> << <<>> >>]}
    \cup {[status_code |-> c, pre |-> << ServerBlock(species, segment, code) >>] : c \in ErrorCodes}

\* --------------------------------------------------------- pure functions
\* make_dir: Path(dir).mkdir(parents=True, exist_ok=True)
make_dir(ds, dir) == ds \cup Ancestors(dir)

\* validate_directory, the type= converter of -O
validate_directory(ds, path) == IF path \notin ds THEN make_dir(ds, path) ELSE ds

\* convert_frame with the codes of in-frame and in-frame-gaps exchanged.
convert_frame_exchanged(frm) ==
    LET key == IF frm = NoFrame THEN "all" ELSE frm
    IN  CASE key = "all" -> "7.2"
          [] key = "in-frame" -> "7.1"
          [] key = "in-frame-gaps" -> "7.5"

\* convert_frame
convert_frame(frm) ==
    LET key == IF frm = NoFrame THEN "all" ELSE frm
    IN  CASE key = "all" -> "7.2"
          [] key = "in-frame" -> "7.5"
          [] key = "in-frame-gaps" -> "7.1"

\* urllib.parse.quote_plus on the characters of the model: space becomes "+".
QuotePlus(s) == Replace(s, " ", "+")

\* construct_url
construct_url(segment, species, frm) ==
    <<"https://www.imgt.org/genedb/GENElect", "?", "query", "=">>
      \o QuotePlus(<<frm, " ", segment>>)
      \o <<"&", "species", "=">> \o QuotePlus(species)

RECURSIVE FirstFasta(_, _)
FirstFasta(pre, i) ==
    IF i > Len(pre) THEN <<>>
    ELSE IF Len(pre[i]) > 0 THEN pre[i]
    ELSE FirstFasta(pre, i + 1)

\* scrape: the first <pre> block holding a ">", or nothing (<<>>).
scrape(response) == FirstFasta(response.pre, 1)

\* write_sequence
write_sequence(fs, name, directory, sequence) ==
    [fs EXCEPT ![directory, name] = File(sequence)]

\* edit_header without the replacement of spaces.
edit_header_keeping_spaces(header) ==
    Join(Take(Split(header, "|"), HeaderFields), "_")

\* edit_header
edit_header(header) ==
    Replace(Join(Take(Split(header, "|"), HeaderFields), "_"), " ", "_")

\* create_library, lines 110-112: the record as written to the library.
library_record(record, simple_headers) ==
    [description |-> IF simple_headers THEN edit_header(record.description)
                     ELSE record.description,
     seq |-> Upper(record.seq)]

LibraryRecords(recs, simple_headers) ==
    [i \in 1..Len(recs) |-> library_record(recs[i], simple_headers)]

\* The orders in which a directory listing can give the files.
ListingOrder == SegmentsTR \o SegmentsIG \o <<LibraryFile>>
Reverse(s) == [i \in 1..Len(s) |-> s[Len(s) + 1 - i]]
GlobOrders == {ListingOrder, Reverse(ListingOrder)}

RECURSIVE MergeFiles(_, _, _, _, _, _, _, _)
\* create_library, lines 108-112: fs is the file system after library.fasta
\* was opened for writing.  When the library file lies in the directory
\* itself it is one of the files listed, and what is read from it is what
\* was flushed by then: at most flushed records of those written so far.
MergeFiles(fs, directory, library, order, i, out, simple_headers, flushed) ==
    IF i > Len(order) THEN out
    ELSE LET name == order[i]
             self == directory = library /\ name = LibraryFile
             recs == IF self THEN SubSeq(out, 1, Min(flushed, Len(out)))
                     ELSE fs[directory, name].recs
         IN  IF fs[directory, name].exists
             THEN MergeFiles(fs, directory, library, order, i + 1,
                             out \o LibraryRecords(recs, simple_headers),
                             simple_headers, flushed)
             ELSE MergeFiles(fs, directory, library, order, i + 1, out,
                             simple_headers, flushed)

\* create_library: the directories and files it leaves.
create_library(ds, fs, directory, simple_headers, order, flushed) ==
    LET library == LibraryDir(directory)
        opened == [fs EXCEPT ![library, LibraryFile] = File(<<>>)]
        out == MergeFiles(opened, directory, library, order, 1, <<>>,
                          simple_headers, flushed)
    IN  [dirs |-> make_dir(ds, library),
         files |-> [opened EXCEPT ![library, LibraryFile] = File(out)],
         read_back |-> directory = library]

\* Whether a directory holds an entry that is no *.fasta file.
HasOtherEntry(ds, oth, directory) ==
    \/ directory \in oth
    \/ \E d \in ds : d # directory /\ Parent(d) = directory

\* cleanup with rmdir tried before any file is unlinked.
cleanup_rmdir_first(ds, fs, oth, directory) ==
    LET unlinked == [k \in DOMAIN fs |-> IF k[1] = directory THEN NoFile ELSE fs[k]]
        raises == HasOtherEntry(ds, oth, directory)
    IN  [dirs |-> IF raises THEN ds ELSE ds \ {directory},
         files |-> IF raises THEN fs ELSE unlinked,
         raised |-> raises]

\* cleanup: every *.fasta file is unlinked, then rmdir, which raises when
\* the directory is not empty.
cleanup(ds, fs, oth, directory) ==
    LET unlinked == [k \in DOMAIN fs |-> IF k[1] = directory THEN NoFile ELSE fs[k]]
        raises == HasOtherEntry(ds, oth, directory)
    IN  [dirs |-> IF raises THEN ds ELSE ds \ {directory},
         files |-> unlinked,
         raised |-> raises]


\* ------------------------------------------------------------------ state
VARIABLES
    dirs,        \* the directories that exist
    files,       \* [directory, file name] -> the file, or NoFile
    others,      \* the directories holding an entry that is no *.fasta file
    pc,          \* where main() is: idle, scrape, library, cleanup, finish,
                 \* done (success was logged), crashed (an error propagated)
    args,        \* the parsed command line of the run
    output_dir,  \* main's output_dir
    frame_selection, \* main's frame_selection, the query code
    idx,         \* position of scrape_IMGT's loop in the segment list
    attempted,   \* the segments the loop has gone through, in order
    requested,   \* the segments an HTTP request was issued for, this run
    failed,      \* those whose fetch ended in a warning
    existed0,    \* the segment files present when scrape_IMGT started
    now,         \* seconds slept since the run started
    lastReqAt,   \* value of now at the last HTTP request
    prevReqAt,   \* value of now at the HTTP request before it
    lastUrl,     \* URL of the last HTTP request
    status,      \* outcome of the last loop iteration
    inputs0,     \* the *.fasta files of the directory when create_library was called
    libReadBack, \* create_library read library.fasta as one of its inputs
    runsLeft,    \* invocations of main() still allowed
    failsLeft,   \* failing fetches still allowed
    argv,        \* SpecArgs: the option/value pairs still to be parsed
    namespace,   \* SpecArgs: the values parsed so far
    parsePc,     \* SpecArgs: parsing, parsed, or the usage error the process
                 \* exited with: invalid_choice, missing_required
    header,      \* SpecHeader: record.description as parsed
    simple,      \* SpecHeader: simple_headers
    written,     \* SpecHeader: the header line written to the library
    headerPc     \* SpecHeader: read (the record is parsed), written

fsVars == <<dirs, files, others>>
runVars == <<pc, args, output_dir, frame_selection, idx, runsLeft, failsLeft>>
obsVars == <<attempted, requested, failed, existed0, now, lastReqAt, prevReqAt,
             lastUrl, status, inputs0, libReadBack>>
argVars == <<argv, namespace, parsePc>>
hdrVars == <<header, simple, written, headerPc>>
vars == <<fsVars, runVars, obsVars, argVars, hdrVars>>

NoArgs == [species |-> <<>>, type |-> <<>>, output |-> NoOutput,
           frame_selection |-> NoFrame, create_library |-> FALSE,
           cleanup |-> FALSE, simple_headers |-> FALSE]
NoTime == 0 - SleepSeconds
NoFiles == [k \in DirUniverse \X FileNames |-> NoFile]

Exists(fs, directory, name) == fs[directory, name].exists

\* The *.fasta files of a directory, by name.
Listing(fs, directory) ==
    [n \in {m \in FileNames : fs[directory, m].exists} |-> fs[directory, n].recs]

\* ------------------------------------------------------------- main()
\* main, lines 372-380, and scrape_IMGT up to its loop: the command line is
\* parsed (validate_directory creates the directory -O names), the output
\* directory is made, the frame selection converted, the loop entered.
main(choice) ==
    /\ pc \in {"idle", "done", "crashed"}
    /\ runsLeft > 0
    /\ \E species \in choice.species, type \in choice.type,
          output \in choice.output, frm \in choice.frame_selection,
          lib \in choice.create_library, clean \in choice.cleanup :
       \E simpleh \in (IF lib THEN choice.simple_headers ELSE {FALSE}) :
          LET dir == OutputDir(output, species)
              parsed == IF output.given THEN validate_directory(dirs, output.path)
                        ELSE dirs
              made == make_dir(parsed, dir)
              ready == IF dir \notin made THEN make_dir(made, dir) ELSE made
          IN  /\ args' = [species |-> species, type |-> type, output |-> output,
                          frame_selection |-> frm, create_library |-> lib,
                          cleanup |-> clean, simple_headers |-> simpleh]
              /\ output_dir' = dir
              /\ frame_selection' = convert_frame(frm)
              /\ dirs' = ready
              /\ existed0' = {sg \in Range(segments(type)) : Exists(files, dir, sg)}
    /\ pc' = "scrape"
    /\ idx' = 1
    /\ runsLeft' = runsLeft - 1
    /\ attempted' = <<>>
    /\ requested' = {}
    /\ failed' = {}
    /\ now' = 0
    /\ lastReqAt' = NoTime
    /\ prevReqAt' = NoTime
    /\ lastUrl' = <<>>
    /\ status' = "started"
    /\ inputs0' = Listing(NoFiles, Cwd)
    /\ libReadBack' = FALSE
    /\ UNCHANGED <<files, others, failsLeft, argVars, hdrVars>>

\* fetch_sequence without the check of the status code.
fetch_sequence_any_status(segment, directory, species, frm) ==
    \E response \in Responses(species, segment, frm) :
        LET url == construct_url(segment, species, frm)
            sequence == scrape(response)
            ok == response.status_code = HttpOk /\ Len(sequence) > 0
        IN  /\ ok \/ failsLeft > 0
            /\ lastUrl' = url
            /\ requested' = requested \cup {segment}
            /\ prevReqAt' = lastReqAt
            /\ lastReqAt' = now
            /\ IF Len(sequence) > 0
               THEN /\ files' = write_sequence(files, segment, directory, sequence)
                    /\ status' = IF ok THEN "written" ELSE "http_error"
               ELSE /\ files' = files
                    /\ status' = "not_found"
            /\ failed' = IF ok THEN failed ELSE failed \cup {segment}
            /\ failsLeft' = IF ok THEN failsLeft ELSE failsLeft - 1
            /\ now' = now + SleepSeconds

\* fetch_sequence: one request, its outcome, the 2 second sleep.
fetch_sequence(segment, directory, species, frm) ==
    \E response \in Responses(species, segment, frm) :
        LET url == construct_url(segment, species, frm)
            sequence == scrape(response)
            ok == response.status_code = HttpOk /\ Len(sequence) > 0
        IN  /\ ok \/ failsLeft > 0
            /\ lastUrl' = url
            /\ requested' = requested \cup {segment}
            /\ prevReqAt' = lastReqAt
            /\ lastReqAt' = now
            /\ IF response.status_code = HttpOk
               THEN IF Len(sequence) > 0
                    THEN /\ files' = write_sequence(files, segment, directory, sequence)
                         /\ status' = "written"
                    ELSE /\ files' = files
                         /\ status' = "not_found"
               ELSE /\ files' = files
                    /\ status' = "http_error"
            /\ failed' = IF ok THEN failed ELSE failed \cup {segment}
            /\ failsLeft' = IF ok THEN failsLeft ELSE failsLeft - 1
            /\ now' = now + SleepSeconds

\* The skip of an existing file without its sleep.
skip_existing_no_sleep(segment) ==
    /\ status' = "exists"
    /\ now' = now
    /\ UNCHANGED <<files, requested, failed, failsLeft, lastUrl, lastReqAt, prevReqAt>>

\* scrape_IMGT, lines 256-258: the file exists, nothing is fetched.
skip_existing(segment) ==
    /\ status' = "exists"
    /\ now' = now + SleepSeconds
    /\ UNCHANGED <<files, requested, failed, failsLeft, lastUrl, lastReqAt, prevReqAt>>

\* The loop without the check for an existing file.
must_fetch_always(fs, directory, segment) == TRUE

\* scrape_IMGT, line 254
must_fetch(fs, directory, segment) == ~Exists(fs, directory, segment)

\* scrape_IMGT, lines 251-258: one iteration of the loop.
scrape_IMGT ==
    /\ pc = "scrape"
    /\ idx <= Len(segments(args.type))
    /\ LET segment == segments(args.type)[idx]
       IN  /\ IF must_fetch(files, output_dir, segment)
              THEN fetch_sequence(segment, output_dir, args.species, frame_selection)
              ELSE skip_existing(segment)
           /\ attempted' = Append(attempted, segment)
    /\ idx' = idx + 1
    /\ UNCHANGED <<dirs, others, pc, args, output_dir, frame_selection, runsLeft,
                   existed0, inputs0, libReadBack, argVars, hdrVars>>

\* scrape_IMGT returns to main once the list is exhausted.
scrape_return ==
    /\ pc = "scrape"
    /\ idx > Len(segments(args.type))
    /\ pc' = "library"
    /\ UNCHANGED <<fsVars, args, output_dir, frame_selection, idx, runsLeft,
                   failsLeft, obsVars, argVars, hdrVars>>

\* main, lines 381-382, with --create-library
main_create_library ==
    /\ pc = "library"
    /\ args.create_library
    /\ \E order \in GlobOrders :
       \E flushed \in (IF LibraryDir(output_dir) = output_dir THEN 0..MaxFlushed ELSE {0}) :
          LET r == create_library(dirs, files, output_dir, args.simple_headers,
                                  order, flushed)
          IN  /\ dirs' = r.dirs
              /\ files' = r.files
              /\ libReadBack' = r.read_back
    /\ inputs0' = Listing(files, output_dir)
    /\ pc' = "cleanup"
    /\ UNCHANGED <<others, args, output_dir, frame_selection, idx, runsLeft,
                   failsLeft, attempted, requested, failed, existed0, now,
                   lastReqAt, prevReqAt, lastUrl, status, argVars, hdrVars>>

\* main, line 381, without --create-library
main_no_library ==
    /\ pc = "library"
    /\ ~args.create_library
    /\ pc' = "cleanup"
    /\ UNCHANGED <<fsVars, args, output_dir, frame_selection, idx, runsLeft,
                   failsLeft, obsVars, argVars, hdrVars>>

\* main, lines 384-385, with --cleanup: an error of rmdir propagates.
main_cleanup ==
    /\ pc = "cleanup"
    /\ args.cleanup
    /\ LET r == cleanup(dirs, files, others, output_dir)
       IN  /\ dirs' = r.dirs
           /\ files' = r.files
           /\ pc' = IF r.raised THEN "crashed" ELSE "finish"
    /\ UNCHANGED <<others, args, output_dir, frame_selection, idx, runsLeft,
                   failsLeft, obsVars, argVars, hdrVars>>

\* main, line 384, without --cleanup
main_no_cleanup ==
    /\ pc = "cleanup"
    /\ ~args.cleanup
    /\ pc' = "finish"
    /\ UNCHANGED <<fsVars, args, output_dir, frame_selection, idx, runsLeft,
                   failsLeft, obsVars, argVars, hdrVars>>

\* main, line 387: "Scrape completed successfully."
main_finish ==
    /\ pc = "finish"
    /\ pc' = "done"
    /\ UNCHANGED <<fsVars, args, output_dir, frame_selection, idx, runsLeft,
                   failsLeft, obsVars, argVars, hdrVars>>

\* ------------------------------------------------------- specifications
IdleArgs == argv = <<>> /\ namespace = NoArgs /\ parsePc = "idle"
IdleHeader == header = <<>> /\ simple = FALSE /\ written = <<>> /\ headerPc = "idle"

\* Before the first run: the working directory, and possibly a directory
\* "out" that already holds an entry that is no *.fasta file.
InitFs ==
    /\ others \in {{}, {OutPath}}
    /\ dirs = {Cwd} \cup others
    /\ files = NoFiles

InitRun(runs, failures) ==
    /\ pc = "idle"
    /\ args = NoArgs
    /\ output_dir = Cwd
    /\ frame_selection = convert_frame(NoFrame)
    /\ idx = 1
    /\ runsLeft = runs
    /\ failsLeft = failures
    /\ attempted = <<>>
    /\ requested = {}
    /\ failed = {}
    /\ existed0 = {}
    /\ now = 0
    /\ lastReqAt = NoTime
    /\ prevReqAt = NoTime
    /\ lastUrl = <<>>
    /\ status = "started"
    /\ inputs0 = Listing(NoFiles, Cwd)
    /\ libReadBack = FALSE

\* No run of main() at all.
IdleRun == InitRun(0, 0)

\* The command lines of a specification: the values each argument is drawn
\* from.  --simple-headers is drawn only together with --create-library,
\* the one place that reads it.
\* Every -O and every flag, the frame selection left out.
FlagCommand ==
    [species |-> latin_names, type |-> {TypeTR, TypeIG}, output |-> OutputArgs,
     frame_selection |-> {NoFrame},
     create_library |-> BOOLEAN, cleanup |-> BOOLEAN, simple_headers |-> BOOLEAN]

\* Every species, type and frame selection, no -O and no flag.
QueryCommand ==
    [species |-> latin_names, type |-> {TypeTR, TypeIG}, output |-> {NoOutput},
     frame_selection |-> frame_choices \cup {NoFrame},
     create_library |-> {FALSE}, cleanup |-> {FALSE}, simple_headers |-> {FALSE}]

\* `-S mus -T <type>` and nothing else.
PlainCommand ==
    [species |-> {Mus}, type |-> {TypeTR, TypeIG}, output |-> {NoOutput},
     frame_selection |-> {NoFrame},
     create_library |-> {FALSE}, cleanup |-> {FALSE}, simple_headers |-> {FALSE}]

\* Spec: up to MaxRuns runs of main() on one file system, each with any
\* command line of FlagCommand, every fetch answered with FASTA.
Init == InitFs /\ InitRun(MaxRuns, 0) /\ IdleArgs /\ IdleHeader

MainStart == main(FlagCommand)

Next ==
    \/ MainStart
    \/ scrape_IMGT
    \/ scrape_return
    \/ main_create_library
    \/ main_no_library
    \/ main_cleanup
    \/ main_no_cleanup
    \/ main_finish

Spec == Init /\ [][Next]_vars

\* SpecRun: one run of main() with any command line of FlagCommand, at most
\* MaxRunFailures of its fetches ending in a warning.
InitRunOnce == InitFs /\ InitRun(1, MaxRunFailures) /\ IdleArgs /\ IdleHeader

RunStart == main(FlagCommand)

NextRun ==
    \/ RunStart
    \/ scrape_IMGT
    \/ scrape_return
    \/ main_create_library
    \/ main_no_library
    \/ main_cleanup
    \/ main_no_cleanup
    \/ main_finish

SpecRun == InitRunOnce /\ [][NextRun]_vars

\* SpecOutcomes: one run with any command line of QueryCommand, every fetch
\* free to end in any of its outcomes.
InitOutcomes ==
    InitFs /\ InitRun(1, Len(SegmentsTR)) /\ IdleArgs /\ IdleHeader

OutcomesStart == main(QueryCommand)

NextOutcomes ==
    \/ OutcomesStart
    \/ scrape_IMGT
    \/ scrape_return
    \/ main_no_library
    \/ main_no_cleanup
    \/ main_finish

SpecOutcomes == InitOutcomes /\ [][NextOutcomes]_vars

\* SpecResume: the plain command line run up to MaxRuns times in the same
\* directory, at most MaxFailures fetches ending in a warning.
InitResume == InitFs /\ InitRun(MaxRuns, MaxFailures) /\ IdleArgs /\ IdleHeader

ResumeStart == main(PlainCommand)

NextResume ==
    \/ ResumeStart
    \/ scrape_IMGT
    \/ scrape_return
    \/ main_no_library
    \/ main_no_cleanup
    \/ main_finish

SpecResume == InitResume /\ [][NextResume]_vars


\* ------------------------------------------------------ the command line
\* The option/value pairs a command line of SpecArgs is made of.  A value
\* is given as typed; "xx" and "bogus" are in no allow-list.
SpeciesValues == {<<"mus">>, <<"bos", " ", "Taurus">>, <<"xx">>}
TypeValues == {<<"tr">>, <<"IG">>, <<"xx">>}
FrameValues == {"all", "in-frame-gaps", "bogus"}
OptionPairs ==
    {[opt |-> "-S", species |-> v] : v \in SpeciesValues}
    \cup {[opt |-> "-T", type |-> v] : v \in TypeValues}
    \cup {[opt |-> "-O", path |-> v] : v \in {OutPath, LibPath}}
    \cup {[opt |-> "-f", frm |-> v] : v \in FrameValues}
    \cup {[opt |-> "--cleanup"]}

RECURSIVE CommandLinesOf(_)
\* The command lines of n pairs, no option given twice.
CommandLinesOf(n) ==
    IF n = 0 THEN {<<>>}
    ELSE {Append(c, o) : c \in CommandLinesOf(n - 1), o \in OptionPairs}

Distinct(c) == \A i, j \in 1..Len(c) : i # j => c[i].opt # c[j].opt
CommandLines ==
    UNION {{c \in CommandLinesOf(n) : Distinct(c)} : n \in 0..MaxArgs}

\* to_capital, the type= converter of -S
to_capital(species) == Capitalize(species)

\* argparser_setup, line 356: parse_args takes the next option of the
\* command line: its type= converter runs, then its value is checked
\* against choices=; a value outside them ends the process with a usage
\* error (invalid_choice).  The converter of -O is validate_directory.
parse_option ==
    /\ parsePc = "parsing"
    /\ Len(argv) > 0
    /\ LET a == Head(argv)
       IN  /\ argv' = Tail(argv)
           /\ CASE a.opt = "-S" ->
                     LET v == to_capital(a.species)
                     IN  /\ dirs' = dirs
                         /\ IF v \in latin_names
                            THEN /\ namespace' = [namespace EXCEPT !.species = v]
                                 /\ parsePc' = "parsing"
                            ELSE /\ namespace' = namespace
                                 /\ parsePc' = "invalid_choice"
                [] a.opt = "-T" ->
                     LET v == Upper(a.type)
                     IN  /\ dirs' = dirs
                         /\ IF v \in {TypeTR, TypeIG}
                            THEN /\ namespace' = [namespace EXCEPT !.type = v]
                                 /\ parsePc' = "parsing"
                            ELSE /\ namespace' = namespace
                                 /\ parsePc' = "invalid_choice"
                [] a.opt = "-O" ->
                     /\ dirs' = validate_directory(dirs, a.path)
                     /\ namespace' = [namespace EXCEPT
                                        !.output = [given |-> TRUE, path |-> a.path]]
                     /\ parsePc' = "parsing"
                [] a.opt = "-f" ->
                     /\ dirs' = dirs
                     /\ IF a.frm \in frame_choices
                        THEN /\ namespace' = [namespace EXCEPT !.frame_selection = a.frm]
                             /\ parsePc' = "parsing"
                        ELSE /\ namespace' = namespace
                             /\ parsePc' = "invalid_choice"
                [] a.opt = "--cleanup" ->
                     /\ dirs' = dirs
                     /\ namespace' = [namespace EXCEPT !.cleanup = TRUE]
                     /\ parsePc' = "parsing"
    /\ UNCHANGED <<files, others, runVars, obsVars, hdrVars>>

\* parse_args at the end of the command line: -S and -T are required, and
\* a command line without one of them ends in a usage error too
\* (missing_required); otherwise main goes on with the namespace.
parse_end ==
    /\ parsePc = "parsing"
    /\ Len(argv) = 0
    /\ parsePc' = IF namespace.species = <<>> \/ namespace.type = <<>>
                  THEN "missing_required" ELSE "parsed"
    /\ UNCHANGED <<fsVars, runVars, obsVars, argv, namespace, hdrVars>>

\* SpecArgs: argparser_setup on any command line of at most MaxArgs options.
InitArgs ==
    /\ InitFs
    /\ IdleRun
    /\ IdleHeader
    /\ argv \in CommandLines
    /\ namespace = NoArgs
    /\ parsePc = "parsing"

NextArgs ==
    \/ parse_option
    \/ parse_end

SpecArgs == InitArgs /\ [][NextArgs]_vars

\* ------------------------------------------------------------ headers
HeaderAlphabet == {"a", "|", " ", "_"}

RECURSIVE TextsOf(_)
TextsOf(n) ==
    IF n = 0 THEN {<<>>}
    ELSE {Append(t, c) : t \in TextsOf(n - 1), c \in HeaderAlphabet}

ExampleHeader ==
    <<"acc123", "|", "Homo", " ", "sapiens", "|", "TRBV1", "|", "extra", "|", "fields">>

\* The headers of SpecHeader: every text of at most MaxHeaderLen characters
\* of the alphabet, and the example of the specification.
Headers == UNION {TextsOf(n) : n \in 0..MaxHeaderLen} \cup {ExampleHeader}

\* create_library, lines 110-112: the header line of one record.
write_header ==
    /\ headerPc = "read"
    /\ written' = library_record([description |-> header, seq |-> <<>>], simple).description
    /\ headerPc' = "written"
    /\ UNCHANGED <<fsVars, runVars, obsVars, argVars, header, simple>>

\* The library is the input of another run: the header written is parsed.
read_header ==
    /\ headerPc = "written"
    /\ header # written
    /\ header' = written
    /\ written' = <<>>
    /\ headerPc' = "read"
    /\ UNCHANGED <<fsVars, runVars, obsVars, argVars, simple>>

InitHeader ==
    /\ InitFs
    /\ IdleRun
    /\ IdleArgs
    /\ header \in Headers
    /\ simple \in BOOLEAN
    /\ written = <<>>
    /\ headerPc = "read"

NextHeader ==
    \/ write_header
    \/ read_header

SpecHeader == InitHeader /\ [][NextHeader]_vars


\* ------------------------------------------------------------ the claims
LibraryOf(directory) == files[LibraryDir(directory), LibraryFile]
AfterScrape == pc \in {"library", "cleanup", "finish", "done", "crashed"}
SegmentFilesIn(directory) == {n \in FileNames : Exists(files, directory, n)}

\* C1: a segment whose {segment}.fasta exists when the loop reaches it gets
\* no HTTP request and its file is left as it is; a run in a directory that
\* already holds every segment file of the list issues no request at all.
C1_ExistingStep ==
    (/\ pc = "scrape"
     /\ idx <= Len(segments(args.type))
     /\ Exists(files, output_dir, segments(args.type)[idx]))
    => /\ requested' = requested
       /\ lastUrl' = lastUrl
       /\ lastReqAt' = lastReqAt
       /\ files' = files

C1_ExistingNeverFetched ==
    /\ [][C1_ExistingStep]_vars
    /\ [](pc # "idle" /\ existed0 = Range(segments(args.type))
            => requested = {} /\ lastUrl = <<>>)

C1_Witness ==
    /\ pc = "done"
    /\ args.type = TypeTR
    /\ existed0 = Range(SegmentsTR)
    /\ attempted = SegmentsTR
    /\ requested = {}

\* C2: whatever the outcome of each fetch, the loop goes through every
\* segment of the type's list once, in list order (10 for TR, 7 for IG), up
\* to the end of the list; a segment whose fetch ended in a non-200 status
\* or without a FASTA block has no file, and the run is not aborted.
C2_EverySegmentAttempted ==
    /\ Len(attempted) <= Len(segments(args.type))
    /\ attempted = SubSeq(segments(args.type), 1, Len(attempted))
    /\ pc = "scrape" => Len(attempted) = idx - 1
    /\ AfterScrape => attempted = segments(args.type)
    /\ AfterScrape /\ args.type = TypeTR => Len(attempted) = 10
    /\ AfterScrape /\ args.type = TypeIG => Len(attempted) = 7
    /\ \A sg \in failed : ~Exists(files, output_dir, sg)
    /\ pc # "crashed"
    /\ pc = "scrape" => ENABLED (scrape_IMGT \/ scrape_return)

C2_Witness ==
    /\ pc = "done"
    /\ args.type = TypeTR
    /\ failed = Range(SegmentsTR)
    /\ status = "not_found"

\* C3: every iteration of the loop, whatever it did, ends with one sleep of
\* 2 seconds, so two HTTP requests are never less than 2 seconds of sleep
\* apart.
C3_OneSleepPerSegment ==
    /\ now = SleepSeconds * Len(attempted)
    /\ SleepSeconds = 2
    /\ lastReqAt # NoTime => now - lastReqAt >= SleepSeconds
    /\ prevReqAt # NoTime => lastReqAt - prevReqAt >= SleepSeconds

C3_Witness ==
    /\ pc = "done"
    /\ existed0 # {}
    /\ failed # {}
    /\ prevReqAt # NoTime
    /\ lastReqAt - prevReqAt > SleepSeconds
    /\ status = "exists"

RECURSIVE Concat(_, _, _)
\* The records of the listed files, file after file in the order given.
Concat(listing, order, simple_headers) ==
    IF Len(order) = 0 THEN <<>>
    ELSE (IF Head(order) \in DOMAIN listing
          THEN LibraryRecords(listing[Head(order)], simple_headers)
          ELSE <<>>) \o Concat(listing, Tail(order), simple_headers)

\* C4: when create_library has completed, library.fasta holds the records
\* of all *.fasta files of the directory, each once, upper-cased, with its
\* own header, in file-internal order, and nothing else.
C4_LibraryIsUnionOfInputs ==
    (pc = "cleanup" /\ args.create_library)
    => /\ LibraryOf(output_dir).exists
       /\ \E order \in GlobOrders :
             LibraryOf(output_dir).recs = Concat(inputs0, order, args.simple_headers)

\* C5: the library directory is a sibling of the output directory and not
\* the output directory; after a run with --create-library and --cleanup
\* library.fasta holds the merged records, was not read back as an input,
\* and the per-segment files and their directory are gone.
C5_LibrarySurvivesCleanup ==
    (pc = "done" /\ args.create_library /\ args.cleanup) =>
        /\ LibraryDir(output_dir) # output_dir
        /\ Parent(LibraryDir(output_dir)) = Parent(output_dir)
        /\ ~libReadBack
        /\ LibraryOf(output_dir).exists
        /\ \E order \in GlobOrders :
              LibraryOf(output_dir).recs = Concat(inputs0, order, args.simple_headers)
        /\ output_dir \notin dirs
        /\ SegmentFilesIn(output_dir) = {}

C7_UsageErrorBeforeAnyWork ==
    parsePc = "invalid_choice" =>
        /\ dirs = {Cwd} \cup others
        /\ files = NoFiles
        /\ requested = {}

\* C8: after any sequence of runs the library of a run holds only records of
\* that run's segment list, fetched for that run's species (stated here for
\* the runs whose library directory is not the output directory itself).
RunRecords ==
    {library_record(r, args.simple_headers) :
        r \in UNION {Range(ServerBlock(args.species, sg, frame_selection)) :
                        sg \in Range(segments(args.type))}}

C8_LibraryOfThisRunOnly ==
    (pc = "cleanup" /\ args.create_library /\ LibraryDir(output_dir) # output_dir)
    => Range(LibraryOf(output_dir).recs) \subseteq RunRecords

\* The header cut before its third "|", every "|" and " " turned into "_".
PipesBefore(h, i) == Cardinality({j \in 1..(i - 1) : h[j] = "|"})
ThirdPipe(h) ==
    IF \E i \in 1..Len(h) : h[i] = "|" /\ PipesBefore(h, i) = HeaderFields - 1
    THEN CHOOSE i \in 1..Len(h) : h[i] = "|" /\ PipesBefore(h, i) = HeaderFields - 1
    ELSE Len(h) + 1
FirstThreeFields(h) ==
    [i \in 1..(ThirdPipe(h) - 1) |-> IF h[i] \in {"|", " "} THEN "_" ELSE h[i]]

\* C9: with simple headers the header written is the first three
\* "|"-separated fields of the header joined by "_", spaces turned to "_";
\* it holds no "|" and no space and edit_header leaves it unchanged; the
\* example header becomes acc123_Homo_sapiens_TRBV1.  Without simple
\* headers the header is written as it is.
C9_SimpleHeader ==
    headerPc = "written" =>
        IF simple
        THEN /\ written = FirstThreeFields(header)
             /\ \A i \in 1..Len(written) : written[i] \notin {"|", " "}
             /\ edit_header(written) = written
             /\ header = ExampleHeader =>
                   written = <<"acc123", "_", "Homo", "_", "sapiens", "_", "TRBV1">>
        ELSE written = header

C9_Witness ==
    /\ headerPc = "written"
    /\ simple
    /\ header = ExampleHeader
    /\ written # header

\* The value of a key of the query string of a URL, as the server decodes
\* it: what stands between "key=" and the next "&", "+" read as a space.
QueryValue(url, key) ==
    LET k == CHOOSE i \in 2..(Len(url) - 1) :
                 url[i] = key /\ url[i + 1] = "=" /\ url[i - 1] \in {"?", "&"}
        ends == {j \in (k + 2)..Len(url) : url[j] = "&"} \cup {Len(url) + 1}
        e == CHOOSE j \in ends : \A m \in ends : j <= m
    IN  Replace(SubSeq(url, k + 2, e - 1), "+", " ")

\* C10: every request of a run queries "{code} {segment}" for the run's
\* species, the code being 7.2 for all and for no frame selection, 7.5 for
\* in-frame and 7.1 for in-frame-gaps, the same for every segment.
C10_Code ==
    CASE args.frame_selection = "all" -> "7.2"
      [] args.frame_selection = "in-frame" -> "7.5"
      [] args.frame_selection = "in-frame-gaps" -> "7.1"
      [] args.frame_selection = NoFrame -> "7.2"

C10_QueryOfEveryRequest ==
    lastUrl # <<>> =>
        /\ \E sg \in requested :
              /\ QueryValue(lastUrl, "query") = <<C10_Code, " ", sg>>
              /\ status # "exists" => sg = attempted[Len(attempted)]
        /\ QueryValue(lastUrl, "species") = args.species

C10_Witness ==
    /\ lastUrl # <<>>
    /\ args.frame_selection = "in-frame-gaps"
    /\ args.species = BosTaurus
    /\ QueryValue(lastUrl, "query") = <<"7.1", " ", "IGLJ">>

====
